---- MODULE Spec2Model ----
(***************************************************************************)
(* Model of potentials.record.PotentialLAMMPS: one PotentialLAMMPS         *)
(* instance, the documents that load_model loads into it, its pot_dir, its *)
(* comments, dois and fileurls properties, and the LAMMPS command text     *)
(* that pair_info and pair_data_info build from the loaded document.       *)
(*                                                                         *)
(* Text is kept as a sequence of lines, a line as the sequence of its      *)
(* space-separated tokens (a blank line is the empty sequence).  Python    *)
(* None is the empty sequence and a present value v is <<v>>.  Python      *)
(* indices are 0-based and the printed ones are i+1; the model indexes     *)
(* from 1, so the model's i is the printed index.                          *)
(***************************************************************************)
EXTENDS Integers, Sequences, FiniteSets, TLC

VARIABLES model, pot_dir, _elements, _symbols, _masses, _charges,
          __artifacts, __comments, __dois, call

vars == <<model, pot_dir, _elements, _symbols, _masses, _charges,
          __artifacts, __comments, __dois, call>>

None == <<>>
Some(v) == <<v>>

(***************************************************************************)
(* Bounds of the checked inputs.                                           *)
(***************************************************************************)
\* longest symbols list a caller passes explicitly
MaxSymbols == 2
\* most pair_coeff blocks in a document
MaxBlocks == 2
\* longest masses list a caller passes
MaxMasses == 2
\* most atom entries in a document that is loaded over another
MaxAtoms == 2

(***************************************************************************)
(* Collaborators that are not part of PotentialLAMMPS.py.                  *)
(***************************************************************************)
\* potentials.tools.aslist: a str or a float becomes a one-element list
aslist(x) == IF x.py = "list" THEN x.v ELSE <<x.s[1]>>

\* potentials.tools.atomic_mass: the periodic-table mass of an element
atomic_mass(element) ==
    CASE element = "A" -> 101
      [] element = "B" -> 102
      [] OTHER -> 103

\* str.lower on the flag strings that occur
lower(s) ==
    CASE s = "True" -> "true"
      [] s = "TRUE" -> "true"
      [] s = "False" -> "false"
      [] OTHER -> s

\* str(Path(pot_dir, tval))
PathJoin(dir, tval) == IF dir = "" THEN tval ELSE dir \o "/" \o tval

\* BasePotentialLAMMPS.symbols
symbols == _symbols

\* BasePotentialLAMMPS.pair_style
pair_style == model[1].pair_style.type

\* BasePotentialLAMMPS.units and atom_style: copied from the document
units == model[1].units
atom_style == model[1].atom_style

Index(seq, v) == CHOOSE k \in 1..Len(seq) : seq[k] = v /\ \A m \in 1..(k-1) : seq[m] # v

InSeq(v, seq) == \E k \in 1..Len(seq) : seq[k] = v

\* BasePotentialLAMMPS.normalize_symbols: the requested list, order and
\* length kept; a symbol that is no stored symbol is an error
normalize_symbols(syms) ==
    IF \A k \in 1..Len(syms) : InSeq(syms[k], symbols)
    THEN [status |-> "ok", symbols |-> syms]
    ELSE [status |-> "UnknownSymbolError", symbols |-> <<>>]

\* BasePotentialLAMMPS.masses for one symbol: the stored mass, else the
\* looked-up mass of the symbol's element
masses(symbol) ==
    LET i == Index(symbols, symbol)
    IN  IF _masses[i] = None THEN atomic_mass(_elements[i]) ELSE _masses[i][1]

(***************************************************************************)
(* load_model                                                              *)
(***************************************************************************)
\* a bug: an atom with no element may lack its mass
MissingKeySymbolOnly(atom) == atom.element = None /\ atom.symbol = None

\* the two KeyErrors: an atom with no element needs its mass and its symbol
MissingKey(atom) ==
    atom.element = None /\ (atom.mass = None \/ atom.symbol = None)

\* a bug: the tables of the last load are kept and appended to
KeptTables ==
    [status |-> "ok", elements |-> _elements, symbols |-> _symbols,
     masses |-> _masses, charges |-> _charges]

\* the four tables are set to empty lists before the atoms are read
EmptyTables ==
    [status |-> "ok", elements |-> <<>>, symbols |-> <<>>,
     masses |-> <<>>, charges |-> <<>>]

\* the loop over the document's atoms: the four tables as they stand when
\* the loop ends or raises
RECURSIVE LoadAtoms(_, _, _)
LoadAtoms(atoms, k, t) ==
    IF k > Len(atoms) THEN t
    ELSE LET atom == atoms[k]
             charge == IF atom.charge = None THEN 0 ELSE atom.charge[1]
         IN  IF MissingKey(atom)
             THEN [t EXCEPT !.status = "KeyError"]
             ELSE LET element == IF atom.element = None THEN atom.symbol[1]
                                 ELSE atom.element[1]
                      symbol == IF atom.symbol = None THEN element
                                ELSE atom.symbol[1]
                  IN  LoadAtoms(atoms, k + 1,
                        [t EXCEPT !.elements = Append(@, element),
                                  !.symbols = Append(@, symbol),
                                  !.masses = Append(@, atom.mass),
                                  !.charges = Append(@, charge)])

\* a bug: a load without pot_dir keeps the pot_dir that was set
PotDirOrKept(dir) == IF dir = None THEN pot_dir ELSE dir[1]

\* pot_dir as load_model sets it: the argument, or '' when it is None
PotDirOrEmpty(dir) == IF dir = None THEN "" ELSE dir[1]

\* load_model(model, pot_dir): the call record also keeps the pot_dir
\* argument, the pot_dir before the call and how many entries the tables
\* held before the call
LoadModel(doc, dir) ==
    LET t == LoadAtoms(doc.atom, 1, EmptyTables)
    IN  /\ model' = Some(doc)
        /\ pot_dir' = PotDirOrEmpty(dir)
        /\ __artifacts' = Some(doc.artifact)
        /\ __comments' = IF doc.comments = None THEN <<"">> ELSE doc.comments[1]
        /\ __dois' = doc.doi
        /\ _elements' = t.elements
        /\ _symbols' = t.symbols
        /\ _masses' = t.masses
        /\ _charges' = t.charges
        /\ call' = [op |-> "load_model",
                    arg |-> [pot_dir |-> dir, was |-> pot_dir,
                             before |-> Len(_symbols)],
                    symbols |-> None, masses |-> None,
                    comments |-> FALSE, status |-> t.status, info |-> <<>>,
                    ret |-> None]

(***************************************************************************)
(* __pair_terms                                                            *)
(***************************************************************************)
\* tval is True or tval.lower() == 'true'; a bool has no lower()
Flag(tval) ==
    IF tval.py = "bool"
    THEN IF tval.v = "True" THEN "true" ELSE "AttributeError"
    ELSE IF lower(tval.v) = "true" THEN "true" ELSE "false"

RECURSIVE SymbolsListTokens(_, _, _)
SymbolsListTokens(coeff_symbols, system_symbols, k) ==
    IF k > Len(coeff_symbols) THEN <<>>
    ELSE (IF InSeq(coeff_symbols[k], system_symbols)
          THEN <<coeff_symbols[k]>> ELSE <<>>)
         \o SymbolsListTokens(coeff_symbols, system_symbols, k + 1)

\* a bug: a system symbol the block does not name gets no token
RECURSIVE SymbolsTokensSkip(_, _, _)
SymbolsTokensSkip(system_symbols, coeff_symbols, k) ==
    IF k > Len(system_symbols) THEN <<>>
    ELSE (IF InSeq(system_symbols[k], coeff_symbols)
          THEN <<system_symbols[k]>> ELSE <<>>)
         \o SymbolsTokensSkip(system_symbols, coeff_symbols, k + 1)

RECURSIVE SymbolsTokens(_, _, _)
SymbolsTokens(system_symbols, coeff_symbols, k) ==
    IF k > Len(system_symbols) THEN <<>>
    ELSE (IF InSeq(system_symbols[k], coeff_symbols)
          THEN <<system_symbols[k]>> ELSE <<"NULL">>)
         \o SymbolsTokens(system_symbols, coeff_symbols, k + 1)

\* one term: the tokens it appends to the line, or the error it raises
TermTokens(term, system_symbols, coeff_symbols) ==
    IF term.ttype = "option" \/ term.ttype = "parameter"
    THEN [status |-> "ok", toks |-> <<term.tval.v>>]
    ELSE IF term.ttype = "file"
    THEN [status |-> "ok", toks |-> <<PathJoin(pot_dir, term.tval.v)>>]
    ELSE IF term.ttype = "symbolsList" /\ Flag(term.tval) # "false"
    THEN IF Flag(term.tval) = "AttributeError"
         THEN [status |-> "AttributeError", toks |-> <<>>]
         ELSE [status |-> "ok",
               toks |-> SymbolsListTokens(coeff_symbols, system_symbols, 1)]
    ELSE IF term.ttype = "symbols" /\ Flag(term.tval) # "false"
    THEN IF Flag(term.tval) = "AttributeError"
         THEN [status |-> "AttributeError", toks |-> <<>>]
         ELSE [status |-> "ok",
               toks |-> SymbolsTokens(system_symbols, coeff_symbols, 1)]
    ELSE [status |-> "ok", toks |-> <<>>]

RECURSIVE PairTermsFrom(_, _, _, _)
PairTermsFrom(terms, system_symbols, coeff_symbols, k) ==
    IF k > Len(terms) THEN [status |-> "ok", toks |-> <<>>]
    ELSE LET t == TermTokens(terms[k], system_symbols, coeff_symbols)
         IN  IF t.status # "ok" THEN t
             ELSE LET rest == PairTermsFrom(terms, system_symbols, coeff_symbols, k + 1)
                  IN  IF rest.status # "ok" THEN rest
                      ELSE [status |-> "ok", toks |-> t.toks \o rest.toks]

__pair_terms(terms, system_symbols, coeff_symbols) ==
    PairTermsFrom(terms, system_symbols, coeff_symbols, 1)

(***************************************************************************)
(* pair_info                                                               *)
(***************************************************************************)
\* a line of output: its tokens, and the statement of pair_info that wrote it
Line(text, part, k) == [text |-> text, part |-> part, k |-> k]

RECURSIVE PrintLines(_, _)
PrintLines(items, k) ==
    IF k > Len(items) THEN <<>>
    ELSE <<Line(<<"print", items[k]>>, "print", k)>> \o PrintLines(items, k + 1)

RECURSIVE NonEmpty(_, _)
NonEmpty(lines, k) ==
    IF k > Len(lines) THEN <<>>
    ELSE (IF lines[k] # "" THEN <<lines[k]>> ELSE <<>>) \o NonEmpty(lines, k + 1)

\* what a property hands back: a value, or the exception it raises
Value(v) == [status |-> "ok", value |-> Some(v)]
Raise(e) == [status |-> e, value |-> None]

\* the artifacts property reads self.__artifacts, an attribute that only
\* load_model assigns (None here stands for the attribute not being set)
artifacts ==
    IF __artifacts = None THEN Raise("AttributeError") ELSE Value(__artifacts[1])

\* the urls that the fileurls property collects from the artifacts
fileurls == [k \in 1..Len(__artifacts[1]) |-> __artifacts[1][k].url]

\* the fileurls property
get_fileurls == IF artifacts.status # "ok" THEN artifacts ELSE Value(fileurls)

\* a bug: the dois property does not look at self.model
get_dois_unchecked == Value(__dois)

\* the dois property
get_dois == IF model = None THEN Raise("AttributeError") ELSE Value(__dois)

\* the comments property
get_comments == IF model = None THEN Raise("AttributeError") ELSE Value(__comments)

print_comments ==
    PrintLines(NonEmpty(__comments, 1), 1)
    \o (IF Len(__dois) > 0
        THEN <<Line(<<"print", "Publication(s) related to the potential:">>, "print", 0)>>
             \o PrintLines(__dois, 1)
        ELSE <<>>)
    \o (IF Len(fileurls) > 0
        THEN <<Line(<<"print", "Parameter file(s) can be downloaded at:">>, "print", 0)>>
             \o PrintLines(fileurls, 1)
        ELSE <<>>)

\* the interaction a pair_coeff block acts on
Interaction(coeff_line) ==
    IF coeff_line.interaction.present /\ coeff_line.interaction.has_symbol
    THEN coeff_line.interaction.symbol
    ELSE <<"*", "*">>

\* len(coeff_line.finds('symbols')) > 0
Many(coeff_line) ==
    \E k \in 1..Len(coeff_line.term) : coeff_line.term[k].ttype = "symbols"

\* a bug: only the first occurrence of the symbol matches
EamMatchFirst(syms, i, coeff_symbols) ==
    syms[i] = coeff_symbols[1] /\ \A m \in 1..(i - 1) : syms[m] # coeff_symbols[1]

\* the condition of the eam loop
EamMatch(syms, i, coeff_symbols) == syms[i] = coeff_symbols[1]

\* a bug: the pair matches in the block's order only
PairMatchOrdered(syms, i, j, coeff_symbols) ==
    syms[i] = coeff_symbols[1] /\ syms[j] = coeff_symbols[2]

\* the condition of the general pair loop
PairMatch(syms, i, j, coeff_symbols) ==
    \/ (syms[i] = coeff_symbols[1] /\ syms[j] = coeff_symbols[2])
    \/ (syms[i] = coeff_symbols[2] /\ syms[j] = coeff_symbols[1])

\* for i in range(len(symbols)): the i that match
RECURSIVE EamLoop(_, _, _)
EamLoop(syms, coeff_symbols, i) ==
    IF i > Len(syms) THEN <<>>
    ELSE (IF EamMatch(syms, i, coeff_symbols) THEN <<<<i, i>>>> ELSE <<>>)
         \o EamLoop(syms, coeff_symbols, i + 1)

\* for i in range(len(symbols)): for j in range(i, len(symbols)): the (i, j)
\* that match
RECURSIVE PairLoop(_, _, _, _)
PairLoop(syms, coeff_symbols, i, j) ==
    IF i > Len(syms) THEN <<>>
    ELSE IF j > Len(syms) THEN PairLoop(syms, coeff_symbols, i + 1, i + 1)
    ELSE (IF PairMatch(syms, i, j, coeff_symbols) THEN <<<<i, j>>>> ELSE <<>>)
         \o PairLoop(syms, coeff_symbols, i, j + 1)

\* the lines of the matched index pairs of one block
CoeffPairLines(pairs, toks, k) ==
    [n \in 1..Len(pairs) |->
        Line(<<"pair_coeff", ToString(pairs[n][1]), ToString(pairs[n][2])>> \o toks,
             "pair_coeff", k)]

\* a bug: the block's terms are given the requested symbols twice
WildcardLinesResolved(coeff_line, k, syms) ==
    LET coeff_terms == __pair_terms(coeff_line.term, syms, syms)
    IN  IF coeff_terms.status # "ok"
        THEN [status |-> coeff_terms.status, lines |-> <<>>]
        ELSE [status |-> "ok",
              lines |-> <<Line(<<"pair_coeff", "*", "*">> \o coeff_terms.toks,
                               "pair_coeff", k)>>]

\* the lines of a wildcard block
WildcardLines(coeff_line, k, syms) ==
    LET coeff_terms == __pair_terms(coeff_line.term, syms, symbols)
    IN  IF coeff_terms.status # "ok"
        THEN [status |-> coeff_terms.status, lines |-> <<>>]
        ELSE [status |-> "ok",
              lines |-> <<Line(<<"pair_coeff", "*", "*">> \o coeff_terms.toks,
                               "pair_coeff", k)>>]

\* the lines of a many-body block
ManyLines(coeff_line, k, syms) ==
    LET coeff_terms == __pair_terms(coeff_line.term, syms, Interaction(coeff_line))
    IN  IF coeff_terms.status # "ok"
        THEN [status |-> coeff_terms.status, lines |-> <<>>]
        ELSE [status |-> "ok",
              lines |-> <<Line(<<"pair_coeff", "*", "*">> \o coeff_terms.toks,
                               "pair_coeff", k),
                          Line(<<>>, "pair_coeff", k)>>]

\* a bug: the eam check is left out
InvalidInteractionAnyPair(coeff_symbols) == Len(coeff_symbols) # 2

\* the two checks of a pair block that raise ValueError
InvalidInteraction(coeff_symbols) ==
    \/ Len(coeff_symbols) # 2
    \/ (pair_style = "eam" /\ coeff_symbols[1] # coeff_symbols[2])

\* the lines of a pair block: the terms are rendered at each match
PairLines(coeff_line, k, syms) ==
    LET coeff_symbols == Interaction(coeff_line)
        coeff_terms == __pair_terms(coeff_line.term, syms, coeff_symbols)
    IN  IF InvalidInteraction(coeff_symbols)
        THEN [status |-> "ValueError", lines |-> <<>>]
        ELSE LET pairs == IF pair_style = "eam"
                          THEN EamLoop(syms, coeff_symbols, 1)
                          ELSE PairLoop(syms, coeff_symbols, 1, 1)
             IN  IF pairs # <<>> /\ coeff_terms.status # "ok"
                 THEN [status |-> coeff_terms.status, lines |-> <<>>]
                 ELSE [status |-> "ok",
                       lines |-> IF pairs = <<>> THEN <<>>
                                 ELSE CoeffPairLines(pairs, coeff_terms.toks, k)]

\* one pass of the loop over the pair_coeff blocks
CoeffLines(coeff_line, k, syms) ==
    IF Interaction(coeff_line) = <<"*", "*">> THEN WildcardLines(coeff_line, k, syms)
    ELSE IF Many(coeff_line) THEN ManyLines(coeff_line, k, syms)
    ELSE PairLines(coeff_line, k, syms)

\* the loop over the pair_coeff blocks: info as it stands when the loop ends
\* or raises
RECURSIVE CoeffLoop(_, _, _, _)
CoeffLoop(blocks, k, syms, info) ==
    IF k > Len(blocks) THEN [status |-> "ok", info |-> info]
    ELSE LET r == CoeffLines(blocks[k], k, syms)
         IN  IF r.status # "ok" THEN [status |-> r.status, info |-> info]
             ELSE CoeffLoop(blocks, k + 1, syms, info \o r.lines)

MassLines(ms) ==
    [k \in 1..Len(ms) |-> Line(<<"mass", ToString(k), ToString(ms[k])>>, "mass", k)]

\* the loop over the document's command lines
RECURSIVE CommandLoop(_, _, _, _)
CommandLoop(commands, k, syms, info) ==
    IF k > Len(commands) THEN [status |-> "ok", info |-> info]
    ELSE LET r == __pair_terms(commands[k].term, syms, symbols)
         IN  IF r.status # "ok" THEN [status |-> r.status, info |-> info]
             ELSE CommandLoop(commands, k + 1, syms,
                              Append(info, Line(r.toks, "command", k)))

\* masses with None appended up to the length of symbols
PadMasses(ms, syms) ==
    ms \o [k \in 1..(IF Len(syms) > Len(ms) THEN Len(syms) - Len(ms) ELSE 0) |-> None]

\* the default of an omitted masses argument
DefaultMasses == <<None>>

\* a bug: the pair_style terms are given the requested symbols
StyleTermsResolved(terms, syms) == __pair_terms(terms, syms, syms)

\* the terms of the pair_style line: __pair_terms is given no symbols
StyleTerms(terms, syms) == __pair_terms(terms, <<>>, <<>>)

\* the body of pair_info from the comment prints on
Generate(syms, ms, comments) ==
    LET doc == model[1]
        head == IF comments THEN print_comments ELSE <<>>
        style_terms == StyleTerms(doc.pair_style.term, syms)
    IN  IF style_terms.status # "ok"
        THEN [status |-> style_terms.status, info |-> head]
        ELSE LET info1 == Append(head, Line(<<"pair_style", pair_style>> \o style_terms.toks,
                                            "pair_style", 0))
                 c == CoeffLoop(doc.pair_coeff, 1, syms, info1)
             IN  IF c.status # "ok" THEN c
                 ELSE CommandLoop(doc.command, 1, syms,
                                  Append(c.info \o MassLines(ms), Line(<<>>, "mass", 0)))

\* a bug: only a masses list that is too long is refused
MassesMismatchLonger(massesArg, masses0, symbols0) ==
    massesArg # None /\ Len(masses0) > Len(symbols0)

\* the assert on the length of the given masses fails
MassesMismatch(massesArg, masses0, symbols0) ==
    massesArg # None /\ Len(masses0) # Len(symbols0)

\* a bug: an omitted symbols argument means the stored symbols backwards
AllSymbolsReversed(symbolsArg) ==
    IF symbolsArg = None
    THEN [k \in 1..Len(symbols) |-> symbols[Len(symbols) + 1 - k]]
    ELSE aslist(symbolsArg[1])

\* use all symbols if symbols is None
AllSymbolsIfNone(symbolsArg) ==
    IF symbolsArg = None THEN symbols ELSE aslist(symbolsArg[1])

\* pair_info: how it ends, and info as it stands then
pair_info(symbolsArg, massesArg, comments) ==
    LET symbols0 == AllSymbolsIfNone(symbolsArg)
        masses0 == IF massesArg = None THEN DefaultMasses ELSE aslist(massesArg[1])
        norm == normalize_symbols(symbols0)
        syms == norm.symbols
        padded == PadMasses(masses0, syms)
    IN  IF MassesMismatch(massesArg, masses0, symbols0)
        THEN [status |-> "AssertionError", info |-> <<>>]
        ELSE IF norm.status # "ok"
        THEN [status |-> norm.status, info |-> <<>>]
        ELSE IF \E i \in 1..Len(padded) : padded[i] = None /\ i > Len(syms)
        THEN [status |-> "IndexError", info |-> <<>>]
        ELSE Generate(syms,
                      [i \in 1..Len(padded) |->
                          IF padded[i] = None THEN masses(syms[i]) ELSE padded[i][1]],
                      comments)

\* what the caller gets: the text, or nothing when an exception leaves
Returned(r) == IF r.status = "ok" THEN Some(r.info) ELSE None

\* the record of a finished pair_info call
InfoCall(symbolsArg, massesArg, comments, r) ==
    [op |-> "pair_info", arg |-> None,
     symbols |-> symbolsArg, masses |-> massesArg,
     comments |-> comments, status |-> r.status, info |-> r.info,
     ret |-> Returned(r)]

PairInfo(symbolsArg, massesArg, comments) ==
    /\ model # None
    /\ call.op = "idle"
    /\ call' = InfoCall(symbolsArg, massesArg, comments,
                        pair_info(symbolsArg, massesArg, comments))
    /\ UNCHANGED <<model, pot_dir, _elements, _symbols, _masses, _charges,
                   __artifacts, __comments, __dois>>

(***************************************************************************)
(* pair_data_info                                                          *)
(***************************************************************************)
\* bflags = ['m', 'm', 'm']; bflags[pbc] = 'p', pbc being three bools
bflags(pbc) == [k \in 1..3 |-> IF pbc[k] THEN "p" ELSE "m"]

\* a bug: read_data is written for a filename of any type
ReadDataAlways(filename) == <<Line(<<"read_data", filename.v>>, "read_data", 0)>>

\* the read_data command: only for a filename that is a str
ReadData(filename) ==
    IF filename.py = "str"
    THEN <<Line(<<"read_data", filename.v>>, "read_data", 0)>>
    ELSE <<>>

\* info += self.pair_info(...): the text of pair_info is added to info, or
\* its exception leaves
AddPairInfo(info, r) ==
    IF r.status # "ok"
    THEN [status |-> r.status, info |-> info]
    ELSE [status |-> "ok", info |-> info \o r.info]

\* pair_data_info: how it ends, and info as it stands then
pair_data_info(filename, pbc, symbolsArg, massesArg, atom_styleArg, unitsArg, comments) ==
    AddPairInfo(
        << Line(<<"units", IF unitsArg = None THEN units ELSE unitsArg[1]>>,
                "units", 0),
           Line(<<"atom_style",
                  IF atom_styleArg = None THEN atom_style ELSE atom_styleArg[1]>>,
                "atom_style", 0),
           Line(<<>>, "atom_style", 0),
           Line(<<"boundary">> \o bflags(pbc), "boundary", 0) >>
        \o ReadData(filename)
        \o <<Line(<<>>, "pair_info", 0)>>,
        pair_info(symbolsArg, massesArg, comments))

\* the record of a finished pair_data_info call
DataCall(filename, pbc, symbolsArg, massesArg, atom_styleArg, unitsArg, comments, r) ==
    [op |-> "pair_data_info",
     arg |-> [filename |-> filename, pbc |-> pbc,
              atom_style |-> atom_styleArg, units |-> unitsArg],
     symbols |-> symbolsArg, masses |-> massesArg,
     comments |-> comments, status |-> r.status, info |-> r.info,
     ret |-> Returned(r)]

PairDataInfo(filename, pbc, symbolsArg, massesArg, atom_styleArg, unitsArg, comments) ==
    /\ model # None
    /\ call.op = "idle"
    /\ call' = DataCall(filename, pbc, symbolsArg, massesArg, atom_styleArg,
                        unitsArg, comments,
                        pair_data_info(filename, pbc, symbolsArg, massesArg,
                                       atom_styleArg, unitsArg, comments))
    /\ UNCHANGED <<model, pot_dir, _elements, _symbols, _masses, _charges,
                   __artifacts, __comments, __dois>>

(***************************************************************************)
(* The properties comments, dois and fileurls, and the pot_dir setter.     *)
(***************************************************************************)
Property(name) ==
    CASE name = "comments" -> get_comments
      [] name = "dois" -> get_dois
      [] OTHER -> get_fileurls

\* one of the three properties is read, on a new instance or a loaded one
Get(name) ==
    /\ call.op \in {"init", "idle"}
    /\ LET r == Property(name)
       IN  call' = [op |-> "get", arg |-> name, symbols |-> None, masses |-> None,
                    comments |-> FALSE, status |-> r.status, info |-> <<>>,
                    ret |-> r.value]
    /\ UNCHANGED <<model, pot_dir, _elements, _symbols, _masses, _charges,
                   __artifacts, __comments, __dois>>

\* self.pot_dir = value, by the constructor (line 49) or by the caller
SetPotDir(value) ==
    /\ call.op \in {"init", "idle"}
    /\ pot_dir' = value
    /\ call' = [op |-> "set_pot_dir", arg |-> value, symbols |-> None,
                masses |-> None, comments |-> FALSE, status |-> "ok",
                info |-> <<>>, ret |-> None]
    /\ UNCHANGED <<model, _elements, _symbols, _masses, _charges,
                   __artifacts, __comments, __dois>>

(***************************************************************************)
(* The documents and the arguments that are checked.                       *)
(***************************************************************************)
Str(v) == [py |-> "str", v |-> v]
\* a bool, by its repr
Bool(v) == [py |-> "bool", v |-> IF v THEN "True" ELSE "False"]
\* an argument: a list, or a scalar (a str, a float)
List(q) == [py |-> "list", v |-> q, s |-> <<>>]
Scalar(py, x) == [py |-> py, v |-> <<>>, s |-> <<x>>]
Term(ttype, tval) == [ttype |-> ttype, tval |-> tval]

NoInteraction == [present |-> FALSE, has_symbol |-> FALSE, symbol |-> <<>>]
On(symbol) == [present |-> TRUE, has_symbol |-> TRUE, symbol |-> symbol]
Block(interaction, term) == [interaction |-> interaction, term |-> term]

\* three atoms: the symbol defaulting to the element, no stored mass, and
\* the element defaulting to the symbol
AtomsABC ==
    << [element |-> Some("A"), symbol |-> None, mass |-> Some(10), charge |-> None],
       [element |-> Some("B"), symbol |-> Some("B"), mass |-> None, charge |-> Some(1)],
       [element |-> None, symbol |-> Some("C"), mass |-> Some(30), charge |-> None] >>

\* two atoms
AtomsAB ==
    << [element |-> Some("A"), symbol |-> None, mass |-> Some(10), charge |-> None],
       [element |-> Some("B"), symbol |-> Some("B"), mass |-> None, charge |-> None] >>

AtomsBA ==
    << [element |-> Some("B"), symbol |-> None, mass |-> None, charge |-> None],
       [element |-> Some("A"), symbol |-> Some("A"), mass |-> Some(10), charge |-> None] >>

\* the symbols callers name; C is unknown to a document of two atoms
Syms == {"A", "B", "C"}

WildcardBlocks ==
    { Block(NoInteraction, <<Term("parameter", Str("w")), Term("symbolsList", Bool(TRUE))>>),
      Block(On(<<"*", "*">>), <<Term("file", Str("f")), Term("symbols", Str("True"))>>) }

ManyBlocks ==
    { Block(On(<<"A", "C">>), <<Term("file", Str("f")), Term("symbols", Bool(TRUE))>>),
      Block(On(<<"B">>), <<Term("symbolsList", Str("true")), Term("symbols", Str("TRUE"))>>),
      Block(On(<<"A", "B">>), <<Term("symbols", Bool(FALSE))>>) }

PairBlocks ==
    { Block(On(<<"A", "A">>), <<Term("parameter", Str("aa"))>>),
      Block(On(<<"B", "B">>), <<Term("parameter", Str("bb"))>>),
      Block(On(<<"A", "C">>), <<Term("parameter", Str("ac")), Term("symbolsList", Str("false"))>>),
      Block(On(<<"B", "A">>), <<Term("parameter", Str("ba"))>>),
      Block(On(<<"A">>), <<Term("parameter", Str("a"))>>),
      Block(On(<<"A", "B", "C">>), <<Term("parameter", Str("abc"))>>) }

Blocks == WildcardBlocks \cup ManyBlocks \cup PairBlocks

SeqsUpTo(S, n) == UNION {[1..m -> S] : m \in 0..n}

\* a document but for its pair_coeff blocks
EamDoc ==
    [atom |-> AtomsAB,
     units |-> "metal", atom_style |-> "atomic",
     pair_style |-> [type |-> "eam", term |-> <<>>],
     command |-> <<>>,
     comments |-> None, doi |-> <<>>, artifact |-> <<>>]

PairDoc ==
    [atom |-> AtomsABC,
     units |-> "real", atom_style |-> "charge",
     pair_style |-> [type |-> "lj/cut",
                     term |-> <<Term("parameter", Str("2.5")),
                                Term("symbols", Bool(TRUE)),
                                Term("symbolsList", Str("True"))>>],
     command |-> << [term |-> <<Term("option", Str("neigh_modify")),
                                Term("symbolsList", Bool(TRUE))>>] >>,
     comments |-> Some(<<"line one", "", "line two">>),
     doi |-> <<"10.1/x">>,
     artifact |-> << [url |-> "https://u/f"] >>]

HybridDoc ==
    [atom |-> AtomsBA,
     units |-> "metal", atom_style |-> "atomic",
     pair_style |-> [type |-> "eam/alloy", term |-> <<Term("option", Str("o"))>>],
     command |-> <<>>,
     comments |-> Some(<<"">>), doi |-> <<>>, artifact |-> <<>>]

WithBlocks(doc, blocks) ==
    [atom |-> doc.atom, units |-> doc.units, atom_style |-> doc.atom_style,
     pair_style |-> doc.pair_style, pair_coeff |-> blocks,
     command |-> doc.command, comments |-> doc.comments, doi |-> doc.doi,
     artifact |-> doc.artifact]

Docs == {WithBlocks(d, b) : d \in {EamDoc, PairDoc}, b \in SeqsUpTo(Blocks, MaxBlocks)}

MassDocs == {WithBlocks(d, b) : d \in {EamDoc, PairDoc, HybridDoc},
                                b \in SeqsUpTo(WildcardBlocks, 1)}

SymbolArgs ==
    {None} \cup {Some(Scalar("str", x)) : x \in Syms}
           \cup {Some(List(q)) : q \in SeqsUpTo(Syms, MaxSymbols)}

MassArgs ==
    {None} \cup {Some(Scalar("float", Some(7)))}
           \cup {Some(List(q)) : q \in SeqsUpTo({None, Some(7)}, MaxMasses)}

Init ==
    /\ model = None
    /\ pot_dir = ""
    /\ _elements = <<>>
    /\ _symbols = <<>>
    /\ _masses = <<>>
    /\ _charges = <<>>
    /\ __artifacts = None
    /\ __comments = <<"">>
    /\ __dois = <<>>
    /\ call = [op |-> "init", arg |-> None, symbols |-> None, masses |-> None,
               comments |-> FALSE, status |-> "ok", info |-> <<>>, ret |-> None]

\* the caller takes the result of the call; the next call starts from here
Return ==
    /\ call.op \notin {"init", "idle"}
    /\ call' = [op |-> "idle", arg |-> None, symbols |-> None, masses |-> None,
                comments |-> FALSE, status |-> "ok", info |-> <<>>, ret |-> None]
    /\ UNCHANGED <<model, pot_dir, _elements, _symbols, _masses, _charges,
                   __artifacts, __comments, __dois>>

\* a document is loaded into a fresh instance, then pair_info is called on it
\* with masses omitted and the comments printed
Next ==
    \/ \E doc \in Docs : model = None /\ LoadModel(doc, None)
    \/ \E s \in SymbolArgs : PairInfo(s, None, TRUE)
    \/ Return

Spec == Init /\ [][Next]_vars

\* the same, over fewer documents and with the masses argument
NextMasses ==
    \/ \E doc \in MassDocs : model = None /\ LoadModel(doc, None)
    \/ \E s \in SymbolArgs, m \in MassArgs, c \in BOOLEAN : PairInfo(s, m, c)
    \/ Return

SpecMasses == Init /\ [][NextMasses]_vars

\* the atom entries of the documents that are loaded over one another: with
\* and without element, symbol, mass and charge, and with symbols that
\* other entries have too
Atom(element, symbol, mass, charge) ==
    [element |-> element, symbol |-> symbol, mass |-> mass, charge |-> charge]

AtomChoices ==
    { Atom(Some("A"), None, Some(10), Some(1)),
      Atom(Some("A"), Some("B"), None, None),
      Atom(None, Some("B"), Some(20), None),
      Atom(None, Some("B"), None, None),
      Atom(None, None, Some(30), None),
      Atom(None, None, None, Some(2)),
      Atom(Some("C"), Some("C"), Some(30), Some(0)) }

WithAtoms(doc, atoms) ==
    [atom |-> atoms, units |-> doc.units, atom_style |-> doc.atom_style,
     pair_style |-> doc.pair_style, pair_coeff |-> <<>>,
     command |-> doc.command, comments |-> doc.comments, doi |-> doc.doi,
     artifact |-> doc.artifact]

LoadDocs == {WithAtoms(HybridDoc, atoms) : atoms \in SeqsUpTo(AtomChoices, MaxAtoms)}

\* documents are loaded into the same instance one after another
NextLoad ==
    \/ \E doc \in LoadDocs : call.op \in {"init", "idle"} /\ LoadModel(doc, None)
    \/ Return

SpecLoad == Init /\ [][NextLoad]_vars

\* the directories that pot_dir is given
Dirs == {"d1", "d2"}
\* a filename as a str and as a pathlib.Path
Filenames == {Str("atom.dat"), [py |-> "Path", v |-> "atom.dat"]}
Triples == [1..3 -> BOOLEAN]
DataSymbolArgs == {None, Some(List(<<"B", "A">>)), Some(Scalar("str", "C"))}

\* an instance in use: pot_dir is assigned, documents are loaded with and
\* without pot_dir, over one another, the properties are read and the two
\* texts are generated
NextInstance ==
    \/ \E doc \in MassDocs, dir \in {None, Some("d1")} :
          call.op \in {"init", "idle"} /\ LoadModel(doc, dir)
    \/ \E value \in Dirs \cup {""} : SetPotDir(value)
    \/ \E name \in {"comments", "dois", "fileurls"} : Get(name)
    \/ \E s \in SymbolArgs : PairInfo(s, None, TRUE)
    \/ \E filename \in Filenames, pbc \in Triples, s \in DataSymbolArgs,
          unitsArg \in {None, Some("real")}, c \in BOOLEAN :
          PairDataInfo(filename, pbc, s, None, None, unitsArg, c)
    \/ Return

SpecInstance == Init /\ [][NextInstance]_vars

(***************************************************************************)
(* What the properties below read off a finished call.                     *)
(***************************************************************************)
Called == call.op = "pair_info"
Succeeded == Called /\ call.status = "ok"
Output == call.ret[1]

\* the symbols the call asks for: the stored ones when symbols is omitted
Requested == IF call.symbols = None THEN _symbols ELSE aslist(call.symbols[1])

\* the lines one statement of pair_info wrote, in output order
LinesOf(part, k) == SelectSeq(Output, LAMBDA l : l.part = part /\ l.k = k)
PartLines(part) == SelectSeq(Output, LAMBDA l : l.part = part)

CoeffBlocks == model[1].pair_coeff
BlockIds == 1..Len(CoeffBlocks)
Names(b) == b.interaction.symbol
IsWildcard(b) ==
    \/ ~b.interaction.present
    \/ ~b.interaction.has_symbol
    \/ Names(b) = <<"*", "*">>
HasSymbolsTerm(b) == \E n \in 1..Len(b.term) : b.term[n].ttype = "symbols"
IsManyBody(b) == ~IsWildcard(b) /\ HasSymbolsTerm(b)
IsPairwise(b) == ~IsWildcard(b) /\ ~HasSymbolsTerm(b)
Rendered(b, system, coeff) == __pair_terms(b.term, system, coeff).toks

IsTrueFlag(tval) ==
    \/ (tval.py = "bool" /\ tval.v = "True")
    \/ (tval.py = "str" /\ tval.v \in {"true", "True", "TRUE"})
IsFalseBool(tval) == tval.py = "bool" /\ tval.v = "False"
HasFalseBool(terms) ==
    \E n \in 1..Len(terms) :
        terms[n].ttype \in {"symbols", "symbolsList"} /\ IsFalseBool(terms[n].tval)

\* the arguments pass the checks made before any text is built
ArgumentsPass ==
    /\ \A i \in 1..Len(Requested) : InSeq(Requested[i], _symbols)
    /\ call.masses = None => Requested # <<>>
    /\ call.masses # None => Len(aslist(call.masses[1])) = Len(Requested)

\* the m-th element of a finite set under a strict total order
Nth(E, m, Less(_, _)) == CHOOSE p \in E : Cardinality({q \in E : Less(q, p)}) = m - 1
PairBefore(p, q) == p[1] < q[1] \/ (p[1] = q[1] /\ p[2] < q[2])
IntBefore(i, j) == i < j

(***************************************************************************)
(* C1.  In a successful call on a document whose pair_style is not eam,    *)
(* a pairwise block naming the two symbols (a, b) writes exactly the lines *)
(* "pair_coeff i j <terms>" for the index pairs i <= j of the requested    *)
(* symbols with {symbols[i], symbols[j]} = {a, b}, in ascending (i, j)     *)
(* order, and the pair_coeff lines of different blocks follow the          *)
(* document's block order.                                                 *)
(***************************************************************************)
MatchingPairs(R, a, b) ==
    {p \in (1..Len(R)) \X (1..Len(R)) : p[1] <= p[2] /\ {R[p[1]], R[p[2]]} = {a, b}}

C1_PairwiseLines ==
    (Succeeded /\ pair_style # "eam") =>
        /\ \A k \in BlockIds :
              LET b == CoeffBlocks[k]
              IN  (IsPairwise(b) /\ Len(Names(b)) = 2) =>
                    LET E == MatchingPairs(Requested, Names(b)[1], Names(b)[2])
                        lines == LinesOf("pair_coeff", k)
                    IN  /\ Len(lines) = Cardinality(E)
                        /\ \A m \in 1..Len(lines) :
                              lines[m].text =
                                  <<"pair_coeff", ToString(Nth(E, m, PairBefore)[1]),
                                    ToString(Nth(E, m, PairBefore)[2])>>
                                  \o Rendered(b, Requested, Names(b))
        /\ \A p, q \in 1..Len(Output) :
              (p < q /\ Output[p].part = "pair_coeff" /\ Output[q].part = "pair_coeff")
                  => Output[p].k <= Output[q].k

\* symbols A, B, C and a block naming (A, C): the one line is pair_coeff 1 3
C1_Witness ==
    /\ Succeeded /\ pair_style # "eam"
    /\ Requested = <<"A", "B", "C">>
    /\ \E k \in BlockIds :
          /\ IsPairwise(CoeffBlocks[k]) /\ Names(CoeffBlocks[k]) = <<"A", "C">>
          /\ Len(LinesOf("pair_coeff", k)) = 1
          /\ SubSeq(LinesOf("pair_coeff", k)[1].text, 1, 3) = <<"pair_coeff", "1", "3">>

(***************************************************************************)
(* C2.  In a successful call on a document whose pair_style is eam, a      *)
(* pairwise block naming (s, s) writes exactly the lines                   *)
(* "pair_coeff i i <terms>" for the indices i of the requested symbols     *)
(* with symbols[i] = s, in ascending order; with the stored symbols A, B,  *)
(* symbols omitted and one diagonal block for each, the pair_coeff lines   *)
(* are exactly "pair_coeff 1 1 ..." and "pair_coeff 2 2 ...".              *)
(***************************************************************************)
MatchingIndices(R, a) == {i \in 1..Len(R) : R[i] = a}

OneDiagonalBlockEach ==
    /\ _symbols = <<"A", "B">>
    /\ Len(CoeffBlocks) = 2
    /\ \A k \in BlockIds : IsPairwise(CoeffBlocks[k])
    /\ {Names(CoeffBlocks[k]) : k \in BlockIds} = {<<"A", "A">>, <<"B", "B">>}

C2_EamDiagonalLines ==
    (Succeeded /\ pair_style = "eam") =>
        /\ \A k \in BlockIds :
              LET b == CoeffBlocks[k]
              IN  (IsPairwise(b) /\ Len(Names(b)) = 2 /\ Names(b)[1] = Names(b)[2]) =>
                    LET I == MatchingIndices(Requested, Names(b)[1])
                        lines == LinesOf("pair_coeff", k)
                    IN  /\ Len(lines) = Cardinality(I)
                        /\ \A m \in 1..Len(lines) :
                              lines[m].text =
                                  <<"pair_coeff", ToString(Nth(I, m, IntBefore)),
                                    ToString(Nth(I, m, IntBefore))>>
                                  \o Rendered(b, Requested, Names(b))
        /\ (OneDiagonalBlockEach /\ call.symbols = None) =>
              /\ Len(PartLines("pair_coeff")) = 2
              /\ {SubSeq(l.text, 1, 3) : l \in {PartLines("pair_coeff")[n] : n \in 1..2}}
                    = {<<"pair_coeff", "1", "1">>, <<"pair_coeff", "2", "2">>}

C2_Witness ==
    /\ Succeeded /\ pair_style = "eam"
    /\ OneDiagonalBlockEach /\ call.symbols = None
    /\ Len(PartLines("pair_coeff")) = 2

(***************************************************************************)
(* C3.  When the document has a pairwise block that names other than two   *)
(* symbols, or, with pair_style eam, two different symbols, pair_info      *)
(* returns nothing; when the arguments pass their checks and no term       *)
(* before that block raises, it ends with the ValueError of that block,    *)
(* the text built so far is dropped, and this is so whether or not the     *)
(* named symbols are among the requested ones.                             *)
(***************************************************************************)
IsInvalid(b) ==
    /\ IsPairwise(b)
    /\ \/ Len(Names(b)) # 2
       \/ (pair_style = "eam" /\ Names(b)[1] # Names(b)[2])

FirstInvalid ==
    CHOOSE k \in BlockIds :
        IsInvalid(CoeffBlocks[k]) /\ \A j \in 1..(k - 1) : ~IsInvalid(CoeffBlocks[j])

ReachesFirstInvalid ==
    /\ ArgumentsPass
    /\ ~HasFalseBool(model[1].pair_style.term)
    /\ \A j \in 1..(FirstInvalid - 1) : ~HasFalseBool(CoeffBlocks[j].term)

C3_InvalidInteractionFails ==
    (Called /\ \E k \in BlockIds : IsInvalid(CoeffBlocks[k])) =>
        /\ call.status # "ok"
        /\ call.ret = None
        /\ ReachesFirstInvalid =>
              (call.status = "ValueError" /\ call.info # <<>>)

\* an eam block naming (A, C) with only B requested
C3_Witness ==
    /\ Called /\ pair_style = "eam"
    /\ Requested = <<"B">>
    /\ \E k \in BlockIds : IsInvalid(CoeffBlocks[k]) /\ Names(CoeffBlocks[k]) = <<"A", "C">>
    /\ call.status = "ValueError" /\ call.ret = None /\ call.info # <<>>

(***************************************************************************)
(* C4.  In a successful call the pair_coeff line of a many-body block has, *)
(* for each symbols term whose flag is true, one token for each requested  *)
(* symbol in order: the symbol if the block's interaction names it, NULL   *)
(* otherwise.                                                              *)
(***************************************************************************)
ExpectedSymbols(R, names) ==
    [i \in 1..Len(R) |-> IF InSeq(R[i], names) THEN R[i] ELSE "NULL"]

RECURSIVE ExpectedManyTokens(_, _, _)
ExpectedManyTokens(b, R, n) ==
    IF n > Len(b.term) THEN <<>>
    ELSE (IF b.term[n].ttype = "symbols" /\ IsTrueFlag(b.term[n].tval)
          THEN ExpectedSymbols(R, Names(b))
          ELSE TermTokens(b.term[n], R, Names(b)).toks)
         \o ExpectedManyTokens(b, R, n + 1)

C4_ManyBodySymbols ==
    Succeeded =>
        \A k \in BlockIds :
            LET b == CoeffBlocks[k]
            IN  IsManyBody(b) =>
                  /\ Len(LinesOf("pair_coeff", k)) >= 1
                  /\ LinesOf("pair_coeff", k)[1].text
                        = <<"pair_coeff", "*", "*">> \o ExpectedManyTokens(b, Requested, 1)
                  /\ Len(ExpectedSymbols(Requested, Names(b))) = Len(Requested)

\* a block on (A, C) with B and A requested: NULL for B, then A
C4_Witness ==
    /\ Succeeded
    /\ Requested = <<"B", "A">>
    /\ \E k \in BlockIds :
          /\ IsManyBody(CoeffBlocks[k]) /\ Names(CoeffBlocks[k]) = <<"A", "C">>
          /\ LinesOf("pair_coeff", k)[1].text = <<"pair_coeff", "*", "*", "f", "NULL", "A">>

(***************************************************************************)
(* C5.  In a successful call a many-body block writes exactly one line,    *)
(* "pair_coeff * *" followed by its terms rendered against the block's     *)
(* interaction symbols, and no other line, blank or not.                   *)
(***************************************************************************)
C5_ManyBodyOneLine ==
    Succeeded =>
        \A k \in BlockIds :
            LET b == CoeffBlocks[k]
            IN  IsManyBody(b) =>
                  /\ Len(LinesOf("pair_coeff", k)) = 1
                  /\ LinesOf("pair_coeff", k)[1].text
                        = <<"pair_coeff", "*", "*">> \o Rendered(b, Requested, Names(b))

(***************************************************************************)
(* C6.  In a successful call a wildcard block writes one line,             *)
(* "pair_coeff * *" followed by its terms rendered with the requested      *)
(* symbols as system symbols and the document's stored symbols as coeff    *)
(* symbols: a true symbolsList term lists the stored symbols that are      *)
(* requested, each once, in stored order.                                  *)
(***************************************************************************)
StoredThatAreRequested == SelectSeq(_symbols, LAMBDA x : InSeq(x, Requested))

RECURSIVE ExpectedWildcardTokens(_, _)
ExpectedWildcardTokens(b, n) ==
    IF n > Len(b.term) THEN <<>>
    ELSE (IF b.term[n].ttype = "symbolsList" /\ IsTrueFlag(b.term[n].tval)
          THEN StoredThatAreRequested
          ELSE IF b.term[n].ttype = "symbols" /\ IsTrueFlag(b.term[n].tval)
          THEN ExpectedSymbols(Requested, _symbols)
          ELSE TermTokens(b.term[n], Requested, _symbols).toks)
         \o ExpectedWildcardTokens(b, n + 1)

C6_WildcardStoredOrder ==
    Succeeded =>
        \A k \in BlockIds :
            LET b == CoeffBlocks[k]
            IN  IsWildcard(b) =>
                  /\ Len(LinesOf("pair_coeff", k)) = 1
                  /\ LinesOf("pair_coeff", k)[1].text
                        = <<"pair_coeff", "*", "*">> \o ExpectedWildcardTokens(b, 1)

\* B, A requested of a document that stores A, B, C: the list reads A B
C6_Witness ==
    /\ Succeeded
    /\ Requested = <<"B", "A">>
    /\ _symbols = <<"A", "B", "C">>
    /\ \E k \in BlockIds :
          /\ IsWildcard(CoeffBlocks[k])
          /\ LinesOf("pair_coeff", k)[1].text = <<"pair_coeff", "*", "*", "w", "A", "B">>

\* C6 as claimed: both symbol lists are the requested symbols, so a true
\* symbolsList term lists the requested symbols in requested order
C6_WildcardRequestedOrder ==
    Succeeded =>
        \A k \in BlockIds :
            LET b == CoeffBlocks[k]
            IN  IsWildcard(b) =>
                  /\ Len(LinesOf("pair_coeff", k)) = 1
                  /\ LinesOf("pair_coeff", k)[1].text
                        = <<"pair_coeff", "*", "*">> \o Rendered(b, Requested, Requested)

(***************************************************************************)
(* C7.  A successful call writes exactly one pair_style line, the          *)
(* pair_style name followed by the document's pair_style terms rendered    *)
(* against empty symbol lists: option, parameter and file terms give       *)
(* their token, symbols and symbolsList terms give none.                   *)
(***************************************************************************)
RECURSIVE ExpectedStyleTokens(_, _)
ExpectedStyleTokens(terms, n) ==
    IF n > Len(terms) THEN <<>>
    ELSE (IF terms[n].ttype \in {"option", "parameter"} THEN <<terms[n].tval.v>>
          ELSE IF terms[n].ttype = "file" THEN <<PathJoin(pot_dir, terms[n].tval.v)>>
          ELSE <<>>)
         \o ExpectedStyleTokens(terms, n + 1)

StyleLines == SelectSeq(Output, LAMBDA l : l.text # <<>> /\ l.text[1] = "pair_style")

C7_StyleLineWithoutSymbols ==
    Succeeded =>
        /\ Len(StyleLines) = 1
        /\ StyleLines = PartLines("pair_style")
        /\ StyleLines[1].text
              = <<"pair_style", model[1].pair_style.type>>
                \o ExpectedStyleTokens(model[1].pair_style.term, 1)

\* pair_style terms with a true symbols and a true symbolsList term
C7_Witness ==
    /\ Succeeded
    /\ Requested = <<"A", "B">>
    /\ \E n \in 1..Len(model[1].pair_style.term) :
          /\ model[1].pair_style.term[n].ttype = "symbols"
          /\ IsTrueFlag(model[1].pair_style.term[n].tval)
    /\ StyleLines[1].text = <<"pair_style", "lj/cut", "2.5">>

\* C7 as claimed: the pair_style terms are rendered against the requested
\* symbols
C7_StyleLineResolved ==
    Succeeded =>
        /\ Len(StyleLines) = 1
        /\ StyleLines[1].text
              = <<"pair_style", model[1].pair_style.type>>
                \o __pair_terms(model[1].pair_style.term, Requested, Requested).toks

(***************************************************************************)
(* C8.  For every list of stored symbols a caller requests, the empty      *)
(* list too, and a document none of whose blocks or terms raises, the      *)
(* call succeeds and its output has exactly one "pair_coeff * *" line for  *)
(* each wildcard block.                                                    *)
(***************************************************************************)
AllKnown == \A i \in 1..Len(Requested) : InSeq(Requested[i], _symbols)

DocumentRaisesNothing ==
    /\ ~HasFalseBool(model[1].pair_style.term)
    /\ \A k \in BlockIds :
          ~HasFalseBool(CoeffBlocks[k].term) /\ ~IsInvalid(CoeffBlocks[k])
    /\ \A n \in 1..Len(model[1].command) : ~HasFalseBool(model[1].command[n].term)

C8_WildcardLineForEveryList ==
    (Called /\ AllKnown /\ call.masses = None /\ DocumentRaisesNothing) =>
        /\ Succeeded
        /\ \A k \in BlockIds :
              IsWildcard(CoeffBlocks[k]) =>
                  /\ Len(LinesOf("pair_coeff", k)) = 1
                  /\ SubSeq(LinesOf("pair_coeff", k)[1].text, 1, 3)
                        = <<"pair_coeff", "*", "*">>

(***************************************************************************)
(* C9.  For every list of stored symbols a caller requests, with masses    *)
(* omitted or of the same length, the call succeeds and writes one line    *)
(* "mass k value" for each requested symbol, in order, then exactly one    *)
(* blank line.                                                             *)
(***************************************************************************)
GivenMasses == IF call.masses = None THEN <<>> ELSE aslist(call.masses[1])

ExpectedMass(k) ==
    IF k <= Len(GivenMasses) /\ GivenMasses[k] # None
    THEN GivenMasses[k][1]
    ELSE LET i == Index(_symbols, Requested[k])
         IN  IF _masses[i] # None THEN _masses[i][1] ELSE atomic_mass(_elements[i])

MassTexts == [n \in 1..Len(PartLines("mass")) |-> PartLines("mass")[n].text]

C9_OneMassLinePerSymbol ==
    (Called /\ AllKnown /\ DocumentRaisesNothing
        /\ (call.masses # None => Len(GivenMasses) = Len(Requested))) =>
        /\ Succeeded
        /\ MassTexts
              = [k \in 1..Len(Requested) |->
                    <<"mass", ToString(k), ToString(ExpectedMass(k))>>] \o << <<>> >>
        /\ Len(SelectSeq(Output, LAMBDA l : l.text # <<>> /\ l.text[1] = "mass"))
              = Len(Requested)

(***************************************************************************)
(* C10.  A call whose masses argument has a length other than the number   *)
(* of requested symbols ends with the AssertionError of the length check,  *)
(* returns nothing, and has built no text by then, also when a requested   *)
(* symbol is unknown.                                                      *)
(***************************************************************************)
C10_LengthMismatchFirst ==
    (Called /\ call.masses # None /\ Len(GivenMasses) # Len(Requested)) =>
        /\ call.status = "AssertionError"
        /\ call.ret = None
        /\ call.info = <<>>

\* masses [7] against two requested symbols
C10_Witness ==
    /\ Called
    /\ call.masses = Some(List(<<Some(7)>>))
    /\ Len(Requested) = 2
    /\ call.status = "AssertionError"
    /\ call.ret = None

\* C11: a pair_info call with symbols omitted ends as, and returns the text
\* of, the call that names the document's stored symbols in stored order
\* with the same masses and comments arguments.
C11_OmittedSymbolsAsStored ==
    (Called /\ call.symbols = None) =>
        LET r == pair_info(Some(List(_symbols)), call.masses, call.comments)
        IN  call.status = r.status /\ call.ret = Returned(r)

\* symbols omitted, masses given and comments printed: text is returned
C11_Witness ==
    /\ Succeeded
    /\ call.symbols = None
    /\ call.masses # None
    /\ call.comments
    /\ Len(_symbols) > 1
    /\ Len(PartLines("mass")) > 2
    /\ Len(PartLines("pair_coeff")) > 0

(***************************************************************************)
(* What the properties below read off a finished load_model call.          *)
(***************************************************************************)
Loaded == call.op = "load_model"
LoadSucceeded == Loaded /\ call.status = "ok"
AtomsOf == model[1].atom
TableIds == 1..Len(_symbols)

\* an atom entry that load_model refuses, in the words of the loading rule
LacksNeeded(atom) ==
    atom.element = None /\ ~(atom.mass # None /\ atom.symbol # None)

\* C12: after a load_model call, the first or one over an earlier document,
\* the four tables have one length, which is the number of atom entries of
\* the document just loaded when the load succeeded and never more than it,
\* and entry i holds the mass of that document's atom i.
C12_TablesOfLastDocument ==
    Loaded =>
        /\ Len(_elements) = Len(_symbols)
        /\ Len(_masses) = Len(_symbols)
        /\ Len(_charges) = Len(_symbols)
        /\ Len(_symbols) <= Len(AtomsOf)
        /\ (call.status = "ok" => Len(_symbols) = Len(AtomsOf))
        /\ \A i \in TableIds : _masses[i] = AtomsOf[i].mass

\* a document of one atom is loaded over tables that held more entries
C12_Witness ==
    /\ LoadSucceeded
    /\ Len(AtomsOf) = 1
    /\ call.arg.before > 1
    /\ Len(_symbols) = 1

\* C13: after a successful load the stored symbols are pairwise distinct.
C13_SymbolsDistinct ==
    LoadSucceeded =>
        \A i, j \in TableIds : _symbols[i] = _symbols[j] => i = j

\* C14: load_model raises KeyError exactly when some atom entry has no
\* element and lacks its mass or its symbol; otherwise it succeeds, and for
\* each atom the stored symbol is the declared symbol or else the element,
\* the stored element the declared element or else the symbol, and the
\* stored charge the declared charge or else 0.
C14_LoadFailsOrDefaults ==
    Loaded =>
        /\ call.status \in {"ok", "KeyError"}
        /\ (call.status = "KeyError"
               <=> \E i \in 1..Len(AtomsOf) : LacksNeeded(AtomsOf[i]))
        /\ (call.status = "ok" =>
               /\ Len(_symbols) = Len(AtomsOf)
               /\ Len(_elements) = Len(AtomsOf)
               /\ Len(_charges) = Len(AtomsOf)
               /\ \A i \in 1..Len(AtomsOf) :
                     LET atom == AtomsOf[i]
                     IN  /\ (atom.symbol # None => _symbols[i] = atom.symbol[1])
                         /\ (atom.symbol = None => _symbols[i] = atom.element[1])
                         /\ (atom.element # None => _elements[i] = atom.element[1])
                         /\ (atom.element = None => _elements[i] = atom.symbol[1])
                         /\ (atom.charge # None => _charges[i] = atom.charge[1])
                         /\ (atom.charge = None => _charges[i] = 0))

\* a load succeeds on an atom with no element, an atom with no symbol, a
\* declared charge and an omitted charge
C14_Witness ==
    /\ LoadSucceeded
    /\ \E i \in TableIds : AtomsOf[i].element = None /\ AtomsOf[i].charge = None
    /\ \E i \in TableIds : AtomsOf[i].symbol = None
    /\ \E i \in TableIds : AtomsOf[i].charge # None /\ _charges[i] # 0

(***************************************************************************)
(* What the properties below read off a finished pair_data_info call.      *)
(***************************************************************************)
DataCalled == call.op = "pair_data_info"
DataReturned == DataCalled /\ call.status = "ok"

\* the lines of the returned text that are not blank
Written == SelectSeq(Output, LAMBDA l : l.text # <<>>)

\* where a line stands in the claimed order, by its first word
Rank(l) ==
    CASE l.text[1] = "units" -> 1
      [] l.text[1] = "atom_style" -> 2
      [] l.text[1] = "boundary" -> 3
      [] l.text[1] = "read_data" -> 4
      [] l.text[1] = "print" -> 5
      [] l.text[1] = "pair_style" -> 6
      [] l.text[1] = "pair_coeff" -> 7
      [] l.text[1] = "mass" -> 8
      [] OTHER -> 9
Count(r) == Len(SelectSeq(Written, LAMBDA l : Rank(l) = r))

Got == call.op = "get"

\* the value of a property as the loaded document has it
DocumentValue(name) ==
    CASE name = "comments" ->
            (IF model[1].comments = None THEN <<"">> ELSE model[1].comments[1])
      [] name = "dois" -> model[1].doi
      [] OTHER -> [k \in 1..Len(model[1].artifact) |-> model[1].artifact[k].url]

\* C16: reading comments, dois or fileurls on an instance with no document
\* loaded raises an error and returns no value; on an instance with a
\* document loaded it returns the value of the document.
C16_AccessorsNeedDocument ==
    Got =>
        IF model = None
        THEN call.status # "ok" /\ call.ret = None
        ELSE call.status = "ok" /\ call.ret = Some(DocumentValue(call.arg))

\* fileurls is read on an instance with no document loaded
C16_Witness ==
    /\ Got
    /\ model = None
    /\ call.arg = "fileurls"
    /\ call.status = "AttributeError"

(***************************************************************************)
(* pot_dir over the calls.                                                 *)
(***************************************************************************)
\* a wildcard block that starts with a file term is written with the file
\* under pot_dir, and with the bare file when pot_dir is ''
FileUnderPotDir ==
    Succeeded =>
        \A k \in BlockIds :
            (IsWildcard(CoeffBlocks[k]) /\ CoeffBlocks[k].term[1].ttype = "file") =>
                LinesOf("pair_coeff", k)[1].text[4] =
                    (IF pot_dir = "" THEN CoeffBlocks[k].term[1].tval.v
                     ELSE pot_dir \o "/" \o CoeffBlocks[k].term[1].tval.v)

\* C18: a load_model call leaves pot_dir at its pot_dir argument, or at ''
\* when that is omitted, an assignment leaves it at the assigned value and
\* no other call changes it; the file terms written afterwards are under
\* that pot_dir.
C18_PotDirOfLastEvent ==
    [][ /\ (call'.op = "load_model" =>
              pot_dir' = (IF call'.arg.pot_dir = None THEN ""
                          ELSE call'.arg.pot_dir[1]))
        /\ (call'.op = "set_pot_dir" => pot_dir' = call'.arg)
        /\ (call'.op \notin {"load_model", "set_pot_dir"} => pot_dir' = pot_dir)
        /\ FileUnderPotDir' ]_vars

\* a document is loaded without pot_dir into an instance whose pot_dir was
\* set
C18_Witness ==
    /\ LoadSucceeded
    /\ call.arg.pot_dir = None
    /\ call.arg.was \in Dirs
    /\ call.arg.before > 0
    /\ pot_dir = ""

(***************************************************************************)
(* Flags that are not true.                                                *)
(***************************************************************************)
IsFlagTerm(t) == t.ttype \in {"symbols", "symbolsList"}
NoTrueFlag(b) ==
    \A n \in 1..Len(b.term) : IsFlagTerm(b.term[n]) => ~IsTrueFlag(b.term[n].tval)

\* the tokens of the option and parameter terms of a block
PlainTokens(b) ==
    LET plain == SelectSeq(b.term, LAMBDA t : t.ttype \in {"option", "parameter"})
    IN  [n \in 1..Len(plain) |-> plain[n].tval.v]

\* C17: a symbols or symbolsList term whose flag is neither the boolean true
\* nor a string that reads 'true' (the boolean false, the string 'false')
\* contributes nothing and raises nothing: the call succeeds, and the lines
\* of a block whose flags are all of that kind hold the block's other
\* tokens only.
C17_OtherFlagContributesNothing ==
    (Called /\ ArgumentsPass /\ \A k \in BlockIds : ~IsInvalid(CoeffBlocks[k])) =>
        /\ Succeeded
        /\ \A k \in BlockIds :
              NoTrueFlag(CoeffBlocks[k]) =>
                  \A m \in 1..Len(LinesOf("pair_coeff", k)) :
                      LET text == LinesOf("pair_coeff", k)[m].text
                      IN  \/ text = <<>>
                          \/ SubSeq(text, 4, Len(text)) = PlainTokens(CoeffBlocks[k])

====
